---- MODULE Spec2Model ----
(***************************************************************************)
(* The offline caching service worker of the Radlett Lodge site            *)
(* (src/unnamed/part_000): the fetch listener's request classification,    *)
(* the three strategies handleApiRequest, handleStaticAsset and            *)
(* handleNavigation, and updateCacheInBackground, as interleaved tasks on  *)
(* one event loop.  Every `await` on a cache lookup or on a network fetch  *)
(* is a step boundary.  A cache.put the code does not await is an          *)
(* operation in flight that the cache store applies at some later step.    *)
(* caches.open reads no entry, so its resolution is folded into the step   *)
(* that calls it.                                                          *)
(***************************************************************************)
EXTENDS Integers, Sequences, FiniteSets, TLC

\* Number of intercepted requests in one run; ids are the arrival order.
MaxHandlers == 2

Handlers == 1..MaxHandlers

----------------------------------------------------------------------------
\* Configuration of the worker.

CACHE_NAME == "radlett-lodge-v1"
API_CACHE_NAME == "radlett-lodge-api-v1"
STATIC_CACHE_NAME == "radlett-lodge-static-v1"

\* A pathname is a sequence of text chunks; `includes` and the suffix test of
\* the extension pattern are decided chunk by chunk.
RootUrl == <<"/">>
ApiUrl == <<"/api/members">>
AssetUrl == <<"/main", ".js">>
PageUrl == <<"/dashboard">>

urlsToCache == << RootUrl, <<"/src/main", ".tsx">>, <<"/src/index", ".css">>,
                  <<"https://fonts.googleapis.com/css2">> >>

API_ENDPOINTS == {"/api/documents", "/api/members", "/api/minutes",
                  "/api/events", "/api/news"}

StaticExtensions == {".js", ".css", ".png", ".jpg", ".jpeg", ".gif", ".svg",
                     ".woff", ".woff2", ".ttf", ".eot", ".ico"}

isApiRequest(pathname) ==
  \/ \E i \in DOMAIN pathname : pathname[i] \in API_ENDPOINTS
  \/ \E i \in DOMAIN pathname : pathname[i] = "/functions/v1/"

isStaticAsset(pathname) ==
  /\ Len(pathname) > 0
  /\ pathname[Len(pathname)] \in StaticExtensions

\* The fetch listener's if / else-if / else.
Route(pathname) ==
  IF isApiRequest(pathname) THEN "api"
  ELSE IF isStaticAsset(pathname) THEN "static"
  ELSE "navigation"

----------------------------------------------------------------------------
\* Requests, responses and cache keys.

Methods == {"GET", "POST"}
RequestUrls == {ApiUrl, AssetUrl, PageUrl}
Urls == RequestUrls \cup {urlsToCache[i] : i \in DOMAIN urlsToCache}

Key(method, url) == [method |-> method, url |-> url]
Keys == {Key(m, u) : m \in Methods, u \in Urls}

\* cache.match('/') : a string is turned into a GET request for that URL.
RootKey == Key("GET", RootUrl)

\* What cache.match resolves to when nothing is stored.
Undefined == [status |-> 0, body |-> "undefined"]

\* new Response('Offline', { status: 503 })
OfflineResponse == [status |-> 503, body |-> "Offline"]

\* Response.ok
Ok(response) == response.status >= 200 /\ response.status <= 299

\* Statuses the network answers with: one in the ok range, one outside it.
NetworkStatuses == {200, 404}

\* The response of the fetch issued by handler h (kind "fg": by the strategy
\* itself, "bg": by its background refresh).  Every fetch yields its own body.
NetworkResponse(h, kind, status) ==
  [status |-> status, body |-> "net-" \o ToString(h) \o "-" \o kind]

\* The rejection of that fetch.
NetworkError(h, kind) == "NetworkError-" \o ToString(h) \o "-" \o kind

\* Entries a worker start-up can find: the install-time shell, and entries
\* left by earlier runs of the same version.
ShellResponse == [status |-> 200, body |-> "shell"]
EarlierApiResponse == [status |-> 200, body |-> "earlier-api"]
EarlierAssetResponse == [status |-> 200, body |-> "earlier-asset"]

EmptyPartition == [k \in Keys |-> Undefined]

\* Partition names: the three of this version, and names an earlier version
\* of the worker left in the cache storage.
CurrentCacheNames == {CACHE_NAME, API_CACHE_NAME, STATIC_CACHE_NAME}
OldCacheNames == {"radlett-lodge-v0", "radlett-lodge-static-v0"}
AllCacheNames == CurrentCacheNames \cup OldCacheNames

----------------------------------------------------------------------------
VARIABLES
  caches,      \* partition name -> (key -> stored response or Undefined)
  cacheNames,  \* the partition names that exist in the cache storage
  handlers,    \* per intercepted request: the state of its strategy
  refresh,     \* per intercepted request: its updateCacheInBackground task
  puts,        \* the cache.put operations issued, none of them awaited
  worker,      \* the worker's lifecycle: install and activate
  auth,        \* AuthProvider: its state and its asynchronous calls in flight
  page         \* MembersPage: its load effect and the loads in flight

vars == <<caches, cacheNames, handlers, refresh, puts, worker, auth, page>>

IdleHandler ==
  [pc |-> "idle", method |-> "GET", url |-> PageUrl, route |-> "none",
   cachedResponse |-> Undefined, networkResponse |-> Undefined,
   catchCachedResponse |-> Undefined,
   outcome |-> "pending", result |-> Undefined, error |-> "none",
   ops |-> << >>]

IdleRefresh == [pc |-> "none", fetches |-> 0, error |-> "none"]

\* The worker once its script has been evaluated, before the install event.
\* pending / fetched: the manifest fetches of cache.addAll in flight and
\* answered; fetches: the network fetches installs have issued so far;
\* keys: what caches.keys() resolved to.  populated, staticBefore, apiBefore,
\* before: the storage as the running install or activation found it.
ParsedWorker ==
  [phase |-> "parsed", installs |-> 0, pending |-> {}, fetched |-> {},
   fetches |-> 0, populated |-> FALSE, keys |-> {},
   staticBefore |-> EmptyPartition, apiBefore |-> EmptyPartition,
   before |-> [n \in AllCacheNames |-> EmptyPartition]]

\* The application's session state (src/src/contexts/AuthContext.tsx) and
\* the members page that reads it (src/src/pages/MembersPage.tsx).

\* Session user objects the auth client hands out, numbered as they come:
\* every session it reports carries a user object of its own.
MaxSessions == 2

\* useState<User | null>(null)
NoUser == 0

\* useState<MemberProfile | null>(null)
NoProfile == [role |-> "null", status |-> "null", needs_password_reset |-> FALSE]

\* The rows api.getMemberProfile can resolve to.
Profiles ==
  {[role |-> "admin", status |-> "active", needs_password_reset |-> FALSE],
   [role |-> "member", status |-> "pending", needs_password_reset |-> TRUE]}

\* AuthProvider as it is first rendered, its effect having called
\* getInitialSession and subscribed to the auth events.  session: where
\* getInitialSession stands; loads: the loadProfile calls awaiting
\* api.getMemberProfile; signOut: where a signOut call stands; sessions: how
\* many session user objects have been handed out.
InitialAuth ==
  [user |-> NoUser, profile |-> NoProfile, loading |-> TRUE, error |-> "null",
   session |-> "getting", loads |-> {}, signOut |-> "idle", sessions |-> 0]

\* MembersPage before it is rendered.  deps: the dependencies its load
\* effect last ran with; started: the loadData calls so far; content, data:
\* the loadData calls awaiting api.getPageContent and the Promise.all of
\* api.getLodgeDocumentsPaginated and api.getMeetingMinutes.
InitialPage ==
  [phase |-> "unmounted", deps |-> <<NoUser, TRUE, FALSE>>,
   dataLoading |-> TRUE, dataLoaded |-> FALSE,
   started |-> 0, content |-> 0, data |-> 0]

Init ==
  /\ \E shell \in {Undefined, ShellResponse},
        asset \in {Undefined, EarlierAssetResponse},
        api \in {Undefined, EarlierApiResponse} :
       caches = [n \in {CACHE_NAME, API_CACHE_NAME, STATIC_CACHE_NAME} |->
                   IF n = STATIC_CACHE_NAME
                     THEN [EmptyPartition EXCEPT ![RootKey] = shell,
                                                 ![Key("GET", AssetUrl)] = asset]
                   ELSE IF n = API_CACHE_NAME
                     THEN [EmptyPartition EXCEPT ![Key("GET", ApiUrl)] = api]
                   ELSE EmptyPartition]
  /\ cacheNames = {n \in {API_CACHE_NAME, STATIC_CACHE_NAME} :
                     \E k \in Keys : caches[n][k] # Undefined}
  /\ handlers = [h \in Handlers |-> IdleHandler]
  /\ refresh = [h \in Handlers |-> IdleRefresh]
  /\ puts = {}
  /\ worker = [ParsedWorker EXCEPT !.phase = "activated", !.installs = 1]
  /\ auth = InitialAuth
  /\ page = InitialPage

----------------------------------------------------------------------------
\* Helpers on a handler's record.

KeyOf(h) == Key(handlers[h].method, handlers[h].url)

\* The handler resolves with `response`.
Resolve(h, response) ==
  [handlers[h] EXCEPT !.pc = "done", !.outcome = "response", !.result = response]

\* cache.put(request, response.clone()), not awaited.
IssuedPut(h, kind, name, response) ==
  [by |-> h, kind |-> kind, cache |-> name, key |-> KeyOf(h),
   response |-> response, state |-> "pending"]

----------------------------------------------------------------------------
\* The fetch listener: classify and start the strategy.

\* StartApi, but the cache is looked up first for every method.
StartApiMatchesAnyMethod(h, method, url) ==
  /\ handlers' = [handlers EXCEPT ![h] =
       [IdleHandler EXCEPT
          !.method = method, !.url = url, !.route = "api",
          !.pc = "api_match", !.ops = <<"open", "match">>]]
  /\ cacheNames' = cacheNames \cup {API_CACHE_NAME}

\* handleApiRequest up to its first await on a lookup or a fetch.
StartApi(h, method, url) ==
  /\ handlers' = [handlers EXCEPT ![h] =
       [IdleHandler EXCEPT
          !.method = method, !.url = url, !.route = "api",
          !.pc = IF method = "GET" THEN "api_match" ELSE "api_fetch",
          !.ops = IF method = "GET" THEN <<"open", "match">>
                                    ELSE <<"open", "fetch">>]]
  /\ cacheNames' = cacheNames \cup {API_CACHE_NAME}

\* handleStaticAsset up to its await on cache.match.
StartStatic(h, method, url) ==
  /\ handlers' = [handlers EXCEPT ![h] =
       [IdleHandler EXCEPT
          !.method = method, !.url = url, !.route = "static",
          !.pc = "static_match", !.ops = <<"open", "match">>]]
  /\ cacheNames' = cacheNames \cup {STATIC_CACHE_NAME}

\* handleNavigation up to its await on fetch.
StartNavigation(h, method, url) ==
  /\ handlers' = [handlers EXCEPT ![h] =
       [IdleHandler EXCEPT
          !.method = method, !.url = url, !.route = "navigation",
          !.pc = "nav_fetch", !.ops = <<"fetch">>]]
  /\ cacheNames' = cacheNames

\* FetchEvent, but the extension is tested before the API prefixes.
FetchEventStaticFirst(h, method, url) ==
  /\ handlers[h].pc = "idle"
  /\ \A g \in Handlers : g < h => handlers[g].pc # "idle"
  /\ IF isStaticAsset(url) THEN StartStatic(h, method, url)
     ELSE IF isApiRequest(url) THEN StartApi(h, method, url)
     ELSE StartNavigation(h, method, url)
  /\ UNCHANGED <<caches, refresh, puts, worker, auth, page>>

\* FetchEvent, but without the static-asset branch.
FetchEventSkipsStatic(h, method, url) ==
  /\ handlers[h].pc = "idle"
  /\ \A g \in Handlers : g < h => handlers[g].pc # "idle"
  /\ IF isApiRequest(url) THEN StartApi(h, method, url)
     ELSE StartNavigation(h, method, url)
  /\ UNCHANGED <<caches, refresh, puts, worker, auth, page>>

FetchEvent(h, method, url) ==
  /\ handlers[h].pc = "idle"
  /\ \A g \in Handlers : g < h => handlers[g].pc # "idle"
  /\ IF isApiRequest(url) THEN StartApi(h, method, url)
     ELSE IF isStaticAsset(url) THEN StartStatic(h, method, url)
     ELSE StartNavigation(h, method, url)
  /\ UNCHANGED <<caches, refresh, puts, worker, auth, page>>

----------------------------------------------------------------------------
\* handleApiRequest

\* ApiMatch, but after starting the refresh a hit is looked up again later
\* and the later value is what the caller gets.
ApiMatchRereads(h) ==
  /\ handlers[h].pc = "api_match"
  /\ LET cachedResponse == caches[API_CACHE_NAME][KeyOf(h)] IN
       IF cachedResponse # Undefined
         THEN /\ refresh' = [refresh EXCEPT ![h] =
                    [IdleRefresh EXCEPT !.pc = "fetching", !.fetches = 1]]
              /\ handlers' = [handlers EXCEPT ![h] =
                    [handlers[h] EXCEPT
                       !.pc = "api_catch_match",
                       !.cachedResponse = cachedResponse,
                       !.ops = handlers[h].ops \o <<"refresh", "match">>]]
         ELSE /\ refresh' = refresh
              /\ handlers' = [handlers EXCEPT ![h] =
                    [handlers[h] EXCEPT
                       !.pc = "api_fetch",
                       !.ops = Append(handlers[h].ops, "fetch")]]
  /\ UNCHANGED <<caches, cacheNames, puts, worker, auth, page>>

\* ApiMatch, but a hit is served without starting the background refresh.
ApiMatchNoRefresh(h) ==
  /\ handlers[h].pc = "api_match"
  /\ LET cachedResponse == caches[API_CACHE_NAME][KeyOf(h)] IN
       IF cachedResponse # Undefined
         THEN handlers' = [handlers EXCEPT ![h] =
                [Resolve(h, cachedResponse) EXCEPT
                   !.cachedResponse = cachedResponse]]
         ELSE handlers' = [handlers EXCEPT ![h] =
                [handlers[h] EXCEPT
                   !.pc = "api_fetch",
                   !.ops = Append(handlers[h].ops, "fetch")]]
  /\ UNCHANGED <<caches, cacheNames, refresh, puts, worker, auth, page>>

\* The first cache.match resolves (GET only).  On a hit the refresh is
\* started, its fetch issued, and the cached response returned at once.
ApiMatch(h) ==
  /\ handlers[h].pc = "api_match"
  /\ LET cachedResponse == caches[API_CACHE_NAME][KeyOf(h)] IN
       IF cachedResponse # Undefined
         THEN /\ refresh' = [refresh EXCEPT ![h] =
                    [IdleRefresh EXCEPT !.pc = "fetching", !.fetches = 1]]
              /\ handlers' = [handlers EXCEPT ![h] =
                    [Resolve(h, cachedResponse) EXCEPT
                       !.cachedResponse = cachedResponse,
                       !.ops = Append(handlers[h].ops, "refresh")]]
         ELSE /\ refresh' = refresh
              /\ handlers' = [handlers EXCEPT ![h] =
                    [handlers[h] EXCEPT
                       !.pc = "api_fetch",
                       !.ops = Append(handlers[h].ops, "fetch")]]
  /\ UNCHANGED <<caches, cacheNames, puts, worker, auth, page>>

\* ApiFetchResponse, but every ok response is cached, whatever the method.
ApiFetchResponseAnyMethod(h, status) ==
  /\ handlers[h].pc = "api_fetch"
  /\ LET networkResponse == NetworkResponse(h, "fg", status) IN
       IF Ok(networkResponse)
         THEN /\ puts' = puts \cup {IssuedPut(h, "fg", API_CACHE_NAME, networkResponse)}
              /\ handlers' = [handlers EXCEPT ![h] =
                    [Resolve(h, networkResponse) EXCEPT
                       !.networkResponse = networkResponse,
                       !.ops = Append(handlers[h].ops, "put")]]
         ELSE /\ puts' = puts
              /\ handlers' = [handlers EXCEPT ![h] =
                    [Resolve(h, networkResponse) EXCEPT
                       !.networkResponse = networkResponse]]
  /\ UNCHANGED <<caches, cacheNames, refresh, worker, auth, page>>

\* fetch(request) resolves with a response of the given status.
ApiFetchResponse(h, status) ==
  /\ handlers[h].pc = "api_fetch"
  /\ LET networkResponse == NetworkResponse(h, "fg", status) IN
       IF handlers[h].method = "GET" /\ Ok(networkResponse)
         THEN /\ puts' = puts \cup {IssuedPut(h, "fg", API_CACHE_NAME, networkResponse)}
              /\ handlers' = [handlers EXCEPT ![h] =
                    [Resolve(h, networkResponse) EXCEPT
                       !.networkResponse = networkResponse,
                       !.ops = Append(handlers[h].ops, "put")]]
         ELSE /\ puts' = puts
              /\ handlers' = [handlers EXCEPT ![h] =
                    [Resolve(h, networkResponse) EXCEPT
                       !.networkResponse = networkResponse]]
  /\ UNCHANGED <<caches, cacheNames, refresh, worker, auth, page>>

\* ApiFetchFail, but a failed fetch is issued once more before the catch
\* block gives up on the network.
ApiFetchFailRetries(h) ==
  /\ handlers[h].pc = "api_fetch"
  /\ handlers' = [handlers EXCEPT ![h] =
       IF Len(handlers[h].ops) < 4
         THEN [handlers[h] EXCEPT !.ops = Append(handlers[h].ops, "fetch")]
         ELSE [handlers[h] EXCEPT
                 !.pc = "api_catch_match",
                 !.error = NetworkError(h, "fg"),
                 !.ops = Append(handlers[h].ops, "match")]]
  /\ UNCHANGED <<caches, cacheNames, refresh, puts, worker, auth, page>>

\* fetch(request) rejects: the catch block issues cache.match(request).
ApiFetchFail(h) ==
  /\ handlers[h].pc = "api_fetch"
  /\ handlers' = [handlers EXCEPT ![h] =
       [handlers[h] EXCEPT
          !.pc = "api_catch_match",
          !.error = NetworkError(h, "fg"),
          !.ops = Append(handlers[h].ops, "match")]]
  /\ UNCHANGED <<caches, cacheNames, refresh, puts, worker, auth, page>>

\* ApiCatchMatch, but the catch block rethrows without using the lookup.
ApiCatchMatchRethrows(h) ==
  /\ handlers[h].pc = "api_catch_match"
  /\ handlers' = [handlers EXCEPT ![h] =
       [handlers[h] EXCEPT !.pc = "done", !.outcome = "rejected"]]
  /\ UNCHANGED <<caches, cacheNames, refresh, puts, worker, auth, page>>

\* The catch block's cache.match resolves.
ApiCatchMatch(h) ==
  /\ handlers[h].pc = "api_catch_match"
  /\ LET cachedResponse == caches[API_CACHE_NAME][KeyOf(h)] IN
       IF cachedResponse # Undefined
         THEN handlers' = [handlers EXCEPT ![h] =
                [Resolve(h, cachedResponse) EXCEPT
                   !.catchCachedResponse = cachedResponse]]
         ELSE handlers' = [handlers EXCEPT ![h] =
                [handlers[h] EXCEPT !.pc = "done", !.outcome = "rejected"]]
  /\ UNCHANGED <<caches, cacheNames, refresh, puts, worker, auth, page>>

----------------------------------------------------------------------------
\* handleStaticAsset

\* StaticMatch, but a hit is revalidated in the background as API hits are.
StaticMatchRevalidates(h) ==
  /\ handlers[h].pc = "static_match"
  /\ LET cachedResponse == caches[STATIC_CACHE_NAME][KeyOf(h)] IN
       IF cachedResponse # Undefined
         THEN /\ refresh' = [refresh EXCEPT ![h] =
                    [IdleRefresh EXCEPT !.pc = "fetching", !.fetches = 1]]
              /\ handlers' = [handlers EXCEPT ![h] =
                    [Resolve(h, cachedResponse) EXCEPT
                       !.cachedResponse = cachedResponse]]
         ELSE /\ refresh' = refresh
              /\ handlers' = [handlers EXCEPT ![h] =
                    [handlers[h] EXCEPT
                       !.pc = "static_fetch",
                       !.ops = Append(handlers[h].ops, "fetch")]]
  /\ UNCHANGED <<caches, cacheNames, puts, worker, auth, page>>

\* StaticMatch, but the lookup goes to the general partition.
StaticMatchReadsGeneral(h) ==
  /\ handlers[h].pc = "static_match"
  /\ LET cachedResponse == caches[CACHE_NAME][KeyOf(h)] IN
       IF cachedResponse # Undefined
         THEN handlers' = [handlers EXCEPT ![h] =
                [Resolve(h, cachedResponse) EXCEPT
                   !.cachedResponse = cachedResponse]]
         ELSE handlers' = [handlers EXCEPT ![h] =
                [handlers[h] EXCEPT
                   !.pc = "static_fetch",
                   !.ops = Append(handlers[h].ops, "fetch")]]
  /\ UNCHANGED <<caches, cacheNames, refresh, puts, worker, auth, page>>

\* The cache.match resolves; a hit is returned as it is.
StaticMatch(h) ==
  /\ handlers[h].pc = "static_match"
  /\ LET cachedResponse == caches[STATIC_CACHE_NAME][KeyOf(h)] IN
       IF cachedResponse # Undefined
         THEN handlers' = [handlers EXCEPT ![h] =
                [Resolve(h, cachedResponse) EXCEPT
                   !.cachedResponse = cachedResponse]]
         ELSE handlers' = [handlers EXCEPT ![h] =
                [handlers[h] EXCEPT
                   !.pc = "static_fetch",
                   !.ops = Append(handlers[h].ops, "fetch")]]
  /\ UNCHANGED <<caches, cacheNames, refresh, puts, worker, auth, page>>

\* StaticFetchResponse, but the response is stored whatever its status.
StaticFetchResponseStoresAny(h, status) ==
  /\ handlers[h].pc = "static_fetch"
  /\ LET networkResponse == NetworkResponse(h, "fg", status) IN
       /\ puts' = puts \cup {IssuedPut(h, "fg", STATIC_CACHE_NAME, networkResponse)}
       /\ handlers' = [handlers EXCEPT ![h] =
            [Resolve(h, networkResponse) EXCEPT
               !.networkResponse = networkResponse,
               !.ops = Append(handlers[h].ops, "put")]]
  /\ UNCHANGED <<caches, cacheNames, refresh, worker, auth, page>>

\* fetch(request) resolves; an ok response is cloned into the static
\* partition (put not awaited) and the response returned.
StaticFetchResponse(h, status) ==
  /\ handlers[h].pc = "static_fetch"
  /\ LET networkResponse == NetworkResponse(h, "fg", status) IN
       IF Ok(networkResponse)
         THEN /\ puts' = puts \cup {IssuedPut(h, "fg", STATIC_CACHE_NAME, networkResponse)}
              /\ handlers' = [handlers EXCEPT ![h] =
                    [Resolve(h, networkResponse) EXCEPT
                       !.networkResponse = networkResponse,
                       !.ops = Append(handlers[h].ops, "put")]]
         ELSE /\ puts' = puts
              /\ handlers' = [handlers EXCEPT ![h] =
                    [Resolve(h, networkResponse) EXCEPT
                       !.networkResponse = networkResponse]]
  /\ UNCHANGED <<caches, cacheNames, refresh, worker, auth, page>>

\* StaticFetchFail, but the rejection is replaced by the offline response.
StaticFetchFailOffline(h) ==
  /\ handlers[h].pc = "static_fetch"
  /\ handlers' = [handlers EXCEPT ![h] =
       [Resolve(h, OfflineResponse) EXCEPT !.error = NetworkError(h, "fg")]]
  /\ UNCHANGED <<caches, cacheNames, refresh, puts, worker, auth, page>>

\* StaticFetchFail, but the failure is answered from the static partition
\* when it holds the key by then.
StaticFetchFailFallsBack(h) ==
  /\ handlers[h].pc = "static_fetch"
  /\ LET cachedResponse == caches[STATIC_CACHE_NAME][KeyOf(h)] IN
       handlers' = [handlers EXCEPT ![h] =
         IF cachedResponse # Undefined
           THEN [Resolve(h, cachedResponse) EXCEPT
                   !.error = NetworkError(h, "fg"),
                   !.catchCachedResponse = cachedResponse]
           ELSE [handlers[h] EXCEPT
                   !.pc = "done", !.outcome = "rejected",
                   !.error = NetworkError(h, "fg")]]
  /\ UNCHANGED <<caches, cacheNames, refresh, puts, worker, auth, page>>

\* fetch rejects outside any try: the rejection is the handler's.
StaticFetchFail(h) ==
  /\ handlers[h].pc = "static_fetch"
  /\ handlers' = [handlers EXCEPT ![h] =
       [handlers[h] EXCEPT
          !.pc = "done", !.outcome = "rejected",
          !.error = NetworkError(h, "fg")]]
  /\ UNCHANGED <<caches, cacheNames, refresh, puts, worker, auth, page>>

----------------------------------------------------------------------------
\* handleNavigation

\* NavFetchResponse, but an ok response is written to the static partition.
NavFetchResponseCaches(h, status) ==
  /\ handlers[h].pc = "nav_fetch"
  /\ LET networkResponse == NetworkResponse(h, "fg", status) IN
       /\ puts' = IF Ok(networkResponse)
                    THEN puts \cup {IssuedPut(h, "fg", STATIC_CACHE_NAME, networkResponse)}
                    ELSE puts
       /\ handlers' = [handlers EXCEPT ![h] =
            [Resolve(h, networkResponse) EXCEPT !.networkResponse = networkResponse]]
  /\ UNCHANGED <<caches, cacheNames, refresh, worker, auth, page>>

\* fetch(request) resolves: the response is returned as it is.
NavFetchResponse(h, status) ==
  /\ handlers[h].pc = "nav_fetch"
  /\ LET networkResponse == NetworkResponse(h, "fg", status) IN
       handlers' = [handlers EXCEPT ![h] =
         [Resolve(h, networkResponse) EXCEPT !.networkResponse = networkResponse]]
  /\ UNCHANGED <<caches, cacheNames, refresh, puts, worker, auth, page>>

\* fetch rejects: the catch block opens the static partition and calls
\* cache.match('/').
NavFetchFail(h) ==
  /\ handlers[h].pc = "nav_fetch"
  /\ handlers' = [handlers EXCEPT ![h] =
       [handlers[h] EXCEPT
          !.pc = "nav_match",
          !.error = NetworkError(h, "fg"),
          !.ops = handlers[h].ops \o <<"open", "match">>]]
  /\ cacheNames' = cacheNames \cup {STATIC_CACHE_NAME}
  /\ UNCHANGED <<caches, refresh, puts, worker, auth, page>>

\* cache.match('/') is a Promise, and an object is truthy whatever it later
\* resolves to.
PromiseIsTruthy == TRUE

\* NavFallback, but the offline response always wins.
NavFallbackOffline(matched) == OfflineResponse

\* return cache.match('/') || new Response('Offline', { status: 503 }) :
\* the left operand is the promise itself, so the handler resolves with
\* whatever the lookup resolves to.
NavFallback(matched) ==
  IF PromiseIsTruthy THEN matched ELSE OfflineResponse

NavMatch(h) ==
  /\ handlers[h].pc = "nav_match"
  /\ LET matched == caches[STATIC_CACHE_NAME][RootKey] IN
       handlers' = [handlers EXCEPT ![h] =
         [Resolve(h, NavFallback(matched)) EXCEPT !.catchCachedResponse = matched]]
  /\ UNCHANGED <<caches, cacheNames, refresh, puts, worker, auth, page>>

----------------------------------------------------------------------------
\* updateCacheInBackground

\* RefreshResponse, but the response is stored whatever its status.
RefreshResponseStoresAny(h, status) ==
  /\ refresh[h].pc = "fetching"
  /\ LET networkResponse == NetworkResponse(h, "bg", status) IN
       /\ puts' = puts \cup {IssuedPut(h, "bg", API_CACHE_NAME, networkResponse)}
       /\ refresh' = [refresh EXCEPT ![h].pc = "done"]
  /\ UNCHANGED <<caches, cacheNames, handlers, worker, auth, page>>

\* RefreshResponse, but the refreshed response goes to the static partition.
RefreshResponseWritesStatic(h, status) ==
  /\ refresh[h].pc = "fetching"
  /\ LET networkResponse == NetworkResponse(h, "bg", status) IN
       /\ puts' = IF Ok(networkResponse)
                    THEN puts \cup {IssuedPut(h, "bg", STATIC_CACHE_NAME, networkResponse)}
                    ELSE puts
       /\ refresh' = [refresh EXCEPT ![h].pc = "done"]
  /\ UNCHANGED <<caches, cacheNames, handlers, worker, auth, page>>

\* The refresh's fetch resolves; an ok response is put under the request's
\* key in the api partition (put not awaited).
RefreshResponse(h, status) ==
  /\ refresh[h].pc = "fetching"
  /\ LET networkResponse == NetworkResponse(h, "bg", status) IN
       /\ puts' = IF Ok(networkResponse)
                    THEN puts \cup {IssuedPut(h, "bg", API_CACHE_NAME, networkResponse)}
                    ELSE puts
       /\ refresh' = [refresh EXCEPT ![h].pc = "done"]
  /\ UNCHANGED <<caches, cacheNames, handlers, worker, auth, page>>

\* RefreshFail, but the refresh fetches once more after a failure.
RefreshFailRetries(h) ==
  /\ refresh[h].pc = "fetching"
  /\ refresh' = IF refresh[h].fetches < 2
                  THEN [refresh EXCEPT ![h].fetches = refresh[h].fetches + 1]
                  ELSE [refresh EXCEPT ![h].pc = "done",
                                       ![h].error = NetworkError(h, "bg")]
  /\ UNCHANGED <<caches, cacheNames, handlers, puts, worker, auth, page>>

\* The rejection is caught and logged.
RefreshFail(h) ==
  /\ refresh[h].pc = "fetching"
  /\ refresh' = [refresh EXCEPT ![h].pc = "done", ![h].error = NetworkError(h, "bg")]
  /\ UNCHANGED <<caches, cacheNames, handlers, puts, worker, auth, page>>

----------------------------------------------------------------------------
\* The cache store carries out a put that was issued.  A put whose request
\* is not a GET is rejected by the browser's Cache (TypeError); a store
\* keyed by (method, URL) accepts it.  Both stores are covered.

\* PutStored, but an entry that is already there is kept: first write wins.
PutStoredIfAbsent(p) ==
  /\ p \in puts
  /\ p.state = "pending"
  /\ caches' = IF caches[p.cache][p.key] = Undefined
                 THEN [caches EXCEPT ![p.cache][p.key] = p.response]
                 ELSE caches
  /\ puts' = (puts \ {p}) \cup {[p EXCEPT !.state = "stored"]}
  /\ UNCHANGED <<cacheNames, handlers, refresh, worker, auth, page>>

PutStored(p) ==
  /\ p \in puts
  /\ p.state = "pending"
  /\ caches' = [caches EXCEPT ![p.cache][p.key] = p.response]
  /\ puts' = (puts \ {p}) \cup {[p EXCEPT !.state = "stored"]}
  /\ UNCHANGED <<cacheNames, handlers, refresh, worker, auth, page>>

PutRejected(p) ==
  /\ p \in puts
  /\ p.state = "pending"
  /\ p.key.method # "GET"
  /\ puts' = (puts \ {p}) \cup {[p EXCEPT !.state = "rejected"]}
  /\ UNCHANGED <<caches, cacheNames, handlers, refresh, worker, auth, page>>

----------------------------------------------------------------------------
Next ==
  \/ \E h \in Handlers, method \in Methods, url \in RequestUrls :
       FetchEvent(h, method, url)
  \/ \E h \in Handlers : ApiMatch(h)
  \/ \E h \in Handlers, status \in NetworkStatuses : ApiFetchResponse(h, status)
  \/ \E h \in Handlers : ApiFetchFail(h)
  \/ \E h \in Handlers : ApiCatchMatch(h)
  \/ \E h \in Handlers : StaticMatch(h)
  \/ \E h \in Handlers, status \in NetworkStatuses : StaticFetchResponse(h, status)
  \/ \E h \in Handlers : StaticFetchFail(h)
  \/ \E h \in Handlers, status \in NetworkStatuses : NavFetchResponse(h, status)
  \/ \E h \in Handlers : NavFetchFail(h)
  \/ \E h \in Handlers : NavMatch(h)
  \/ \E h \in Handlers, status \in NetworkStatuses : RefreshResponse(h, status)
  \/ \E h \in Handlers : RefreshFail(h)
  \/ \E p \in puts : PutStored(p)
  \/ \E p \in puts : PutRejected(p)

Spec == Init /\ [][Next]_vars

----------------------------------------------------------------------------
\* The install listener.  cache.addAll fetches every URL of the manifest and
\* writes the responses in one batch once all of them have answered ok; a
\* rejected fetch or a response that is not ok rejects addAll with nothing
\* written.

\* Number of install events in one run.
MaxInstalls == 2

ManifestIndexes == DOMAIN urlsToCache

ManifestKey(i) == Key("GET", urlsToCache[i])

\* The response addAll gets for manifest URL i in the n-th install.
InstallResponse(n, i) ==
  [status |-> 200, body |-> "manifest-" \o ToString(n) \o "-" \o ToString(i)]

\* Every manifest URL has an entry in the static partition.
ManifestCached ==
  \A i \in ManifestIndexes : caches[STATIC_CACHE_NAME][ManifestKey(i)] # Undefined

\* InstallStart, but a manifest that is already cached is not fetched again.
InstallStartSkipsCached ==
  /\ worker.phase \in {"parsed", "installed", "redundant", "activated"}
  /\ worker.installs < MaxInstalls
  /\ cacheNames' = cacheNames \cup {STATIC_CACHE_NAME, API_CACHE_NAME}
  /\ worker' = [worker EXCEPT
       !.phase = "installing",
       !.installs = worker.installs + 1,
       !.pending = IF ManifestCached THEN {} ELSE ManifestIndexes,
       !.fetched = IF ManifestCached THEN ManifestIndexes ELSE {},
       !.fetches = IF ManifestCached THEN worker.fetches
                   ELSE worker.fetches + Len(urlsToCache),
       !.populated = ManifestCached,
       !.staticBefore = caches[STATIC_CACHE_NAME],
       !.apiBefore = caches[API_CACHE_NAME]]
  /\ UNCHANGED <<caches, handlers, refresh, puts, auth, page>>

\* The install event: both caches.open calls are issued, and addAll issues
\* one fetch per manifest URL.
InstallStart ==
  /\ worker.phase \in {"parsed", "installed", "redundant", "activated"}
  /\ worker.installs < MaxInstalls
  /\ cacheNames' = cacheNames \cup {STATIC_CACHE_NAME, API_CACHE_NAME}
  /\ worker' = [worker EXCEPT
       !.phase = "installing",
       !.installs = worker.installs + 1,
       !.pending = ManifestIndexes,
       !.fetched = {},
       !.fetches = worker.fetches + Len(urlsToCache),
       !.populated = ManifestCached,
       !.staticBefore = caches[STATIC_CACHE_NAME],
       !.apiBefore = caches[API_CACHE_NAME]]
  /\ UNCHANGED <<caches, handlers, refresh, puts, auth, page>>

\* InstallFetchOk, but each response is written as soon as it arrives.
InstallFetchOkStores(i) ==
  /\ worker.phase = "installing"
  /\ i \in worker.pending
  /\ worker' = [worker EXCEPT !.pending = worker.pending \ {i},
                              !.fetched = worker.fetched \cup {i}]
  /\ caches' = [caches EXCEPT ![STATIC_CACHE_NAME][ManifestKey(i)] =
                  InstallResponse(worker.installs, i)]
  /\ UNCHANGED <<cacheNames, handlers, refresh, puts, auth, page>>

\* The fetch of manifest URL i answers ok.
InstallFetchOk(i) ==
  /\ worker.phase = "installing"
  /\ i \in worker.pending
  /\ worker' = [worker EXCEPT !.pending = worker.pending \ {i},
                              !.fetched = worker.fetched \cup {i}]
  /\ UNCHANGED <<caches, cacheNames, handlers, refresh, puts, auth, page>>

\* The fetch of manifest URL i rejects or answers with a status that is not
\* ok: addAll rejects, so does the promise given to waitUntil, and the
\* install fails.
InstallFetchFail(i) ==
  /\ worker.phase = "installing"
  /\ i \in worker.pending
  /\ worker' = [worker EXCEPT !.phase = "redundant", !.pending = {}]
  /\ UNCHANGED <<caches, cacheNames, handlers, refresh, puts, auth, page>>

\* All manifest fetches answered ok: addAll writes its batch.
InstallCommit ==
  /\ worker.phase = "installing"
  /\ worker.pending = {}
  /\ caches' = [caches EXCEPT ![STATIC_CACHE_NAME] =
       [k \in Keys |->
          IF \E i \in ManifestIndexes : k = ManifestKey(i)
            THEN InstallResponse(worker.installs,
                                 CHOOSE i \in ManifestIndexes : k = ManifestKey(i))
            ELSE caches[STATIC_CACHE_NAME][k]]]
  /\ worker' = [worker EXCEPT !.phase = "installed"]
  /\ UNCHANGED <<cacheNames, handlers, refresh, puts, auth, page>>

----------------------------------------------------------------------------
\* The activate listener.

\* Stale, but only the general partition is kept.
StaleUnlessGeneral(cacheName) == cacheName # CACHE_NAME

\* The condition under which activate deletes a partition.
Stale(cacheName) ==
  /\ cacheName # CACHE_NAME
  /\ cacheName # API_CACHE_NAME
  /\ cacheName # STATIC_CACHE_NAME

\* caches.keys() resolves; caches.delete is issued for every stale name.
ActivateStart ==
  /\ worker.phase = "installed"
  /\ worker' = [worker EXCEPT !.phase = "activating",
                              !.keys = cacheNames,
                              !.before = caches]
  /\ UNCHANGED <<caches, cacheNames, handlers, refresh, puts, auth, page>>

\* One of the issued caches.delete calls is carried out.
ActivateDelete(cacheName) ==
  /\ worker.phase = "activating"
  /\ cacheName \in worker.keys
  /\ cacheName \in cacheNames
  /\ Stale(cacheName)
  /\ cacheNames' = cacheNames \ {cacheName}
  /\ caches' = [caches EXCEPT ![cacheName] = EmptyPartition]
  /\ UNCHANGED <<handlers, refresh, puts, worker, auth, page>>

\* Promise.all resolves once every delete has been carried out.
ActivateDone ==
  /\ worker.phase = "activating"
  /\ \A cacheName \in worker.keys : Stale(cacheName) => cacheName \notin cacheNames
  /\ worker' = [worker EXCEPT !.phase = "activated"]
  /\ UNCHANGED <<caches, cacheNames, handlers, refresh, puts, auth, page>>

\* What the cache storage can hold when a worker is registered: any of the
\* known names, each partition empty or with entries of earlier runs.
EarlierPartition(cacheName) ==
  IF cacheName \in {STATIC_CACHE_NAME, "radlett-lodge-static-v0"}
    THEN [EmptyPartition EXCEPT ![RootKey] = ShellResponse,
                                ![Key("GET", AssetUrl)] = EarlierAssetResponse]
  ELSE IF cacheName = API_CACHE_NAME
    THEN [EmptyPartition EXCEPT ![Key("GET", ApiUrl)] = EarlierApiResponse]
  ELSE [EmptyPartition EXCEPT ![Key("GET", PageUrl)] = EarlierAssetResponse]

InitLifecycle ==
  /\ cacheNames \in SUBSET AllCacheNames
  /\ \E filled \in SUBSET AllCacheNames :
       caches = [n \in AllCacheNames |->
                   IF n \in cacheNames /\ n \in filled
                     THEN EarlierPartition(n) ELSE EmptyPartition]
  /\ handlers = [h \in Handlers |-> IdleHandler]
  /\ refresh = [h \in Handlers |-> IdleRefresh]
  /\ puts = {}
  /\ worker = ParsedWorker
  /\ auth = InitialAuth
  /\ page = InitialPage

NextLifecycle ==
  \/ InstallStart
  \/ \E i \in ManifestIndexes : InstallFetchOk(i)
  \/ \E i \in ManifestIndexes : InstallFetchFail(i)
  \/ InstallCommit
  \/ ActivateStart
  \/ \E cacheName \in AllCacheNames : ActivateDelete(cacheName)
  \/ ActivateDone

SpecLifecycle == InitLifecycle /\ [][NextLifecycle]_vars

----------------------------------------------------------------------------
\* Classification alone: the fetch listener applied to every pathname of a
\* bounded set.

\* Longest pathname, in chunks.
MaxPathLen == 2

OtherChunks == {"/page", ".tsx"}
Chunks == API_ENDPOINTS \cup {"/functions/v1/"} \cup StaticExtensions \cup OtherChunks

Pathnames == UNION {[1..n -> Chunks] : n \in 1..MaxPathLen}

NextClassify ==
  \E method \in Methods, pathname \in Pathnames : FetchEvent(1, method, pathname)

\* The storage plays no part in classification: start from an empty one.
InitClassify == Init /\ cacheNames = {}

SpecClassify == InitClassify /\ [][NextClassify]_vars

----------------------------------------------------------------------------
\* AuthProvider (src/src/contexts/AuthContext.tsx).  The provider stays
\* mounted, so `mounted` is true wherever the code tests it.  Every await is
\* a step of its own: the state setters before it belong to the step that
\* reaches it, those after it to the step in which it settles.

ServiceWorkerVars == <<caches, cacheNames, handlers, refresh, puts, worker>>

isAdmin == auth.profile.role = "admin"

needsPasswordReset == auth.profile.needs_password_reset = TRUE

\* loadProfile(currentUser) up to its await: setError(null), then the call
\* of api.getMemberProfile.
LoadProfileCalled(a, currentUser, caller) ==
  [a EXCEPT !.error = "null",
            !.loads = a.loads \cup {[user |-> currentUser, caller |-> caller]}]

\* What follows `await loadProfile(...)` in its caller: getInitialSession
\* goes on to its finally block, the event callback and refreshProfile have
\* nothing left to do.
LoadProfileReturned(a, l) ==
  IF l.caller = "initial"
    THEN [a EXCEPT !.loads = a.loads \ {l}, !.loading = FALSE, !.session = "done"]
    ELSE [a EXCEPT !.loads = a.loads \ {l}]

\* supabase.auth.getSession() reports an error ('Authentication error') or
\* throws ('Failed to authenticate').
GetSessionError(message) ==
  /\ auth.session = "getting"
  /\ auth' = [auth EXCEPT !.error = message, !.loading = FALSE, !.session = "done"]
  /\ UNCHANGED <<ServiceWorkerVars, page>>

\* getSession resolves without a session.
GetSessionNone ==
  /\ auth.session = "getting"
  /\ auth' = [auth EXCEPT !.loading = FALSE, !.session = "done"]
  /\ UNCHANGED <<ServiceWorkerVars, page>>

\* getSession resolves with a session: setUser, then await loadProfile.
GetSessionUser ==
  /\ auth.session = "getting"
  /\ auth.sessions < MaxSessions
  /\ LET sessionUser == auth.sessions + 1 IN
       auth' = [LoadProfileCalled(auth, sessionUser, "initial") EXCEPT
                  !.user = sessionUser,
                  !.session = "loading_profile",
                  !.sessions = sessionUser]
  /\ UNCHANGED <<ServiceWorkerVars, page>>

\* api.getMemberProfile resolves: setProfile(userProfile).
LoadProfileResolved(l, userProfile) ==
  /\ l \in auth.loads
  /\ auth' = [LoadProfileReturned(auth, l) EXCEPT !.profile = userProfile]
  /\ UNCHANGED <<ServiceWorkerVars, page>>

\* api.getMemberProfile rejects: the catch block of loadProfile.
LoadProfileRejected(l) ==
  /\ l \in auth.loads
  /\ auth' = [LoadProfileReturned(auth, l) EXCEPT
                !.error = "Failed to load user profile",
                !.profile = NoProfile]
  /\ UNCHANGED <<ServiceWorkerVars, page>>

\* onAuthStateChange: SIGNED_IN with a session.
AuthSignedIn ==
  /\ auth.sessions < MaxSessions
  /\ LET sessionUser == auth.sessions + 1 IN
       auth' = [LoadProfileCalled(auth, sessionUser, "event") EXCEPT
                  !.user = sessionUser,
                  !.sessions = sessionUser]
  /\ UNCHANGED <<ServiceWorkerVars, page>>

\* onAuthStateChange: SIGNED_OUT.
AuthSignedOut ==
  /\ auth' = [auth EXCEPT !.error = "null", !.user = NoUser, !.profile = NoProfile]
  /\ UNCHANGED <<ServiceWorkerVars, page>>

\* onAuthStateChange: TOKEN_REFRESHED with a session; the profile is not
\* reloaded.
AuthTokenRefreshed ==
  /\ auth.sessions < MaxSessions
  /\ LET sessionUser == auth.sessions + 1 IN
       auth' = [auth EXCEPT !.error = "null",
                            !.user = sessionUser,
                            !.sessions = sessionUser]
  /\ UNCHANGED <<ServiceWorkerVars, page>>

\* onAuthStateChange: any other event, or one of the above without a
\* session where one is required: setError(null) and nothing else.
AuthOtherEvent ==
  /\ auth' = [auth EXCEPT !.error = "null"]
  /\ UNCHANGED <<ServiceWorkerVars, page>>

\* signOut() up to its await on supabase.auth.signOut().
SignOutCalled ==
  /\ auth.signOut = "idle"
  /\ auth' = [auth EXCEPT !.error = "null", !.signOut = "pending"]
  /\ UNCHANGED <<ServiceWorkerVars, page>>

\* supabase.auth.signOut() resolves without an error.
SignOutResolved ==
  /\ auth.signOut = "pending"
  /\ auth' = [auth EXCEPT !.user = NoUser, !.profile = NoProfile, !.signOut = "idle"]
  /\ UNCHANGED <<ServiceWorkerVars, page>>

\* supabase.auth.signOut() reports an error or throws.
SignOutFailed ==
  /\ auth.signOut = "pending"
  /\ auth' = [auth EXCEPT !.error = "Failed to sign out", !.signOut = "idle"]
  /\ UNCHANGED <<ServiceWorkerVars, page>>

\* refreshProfile(): loadProfile(user) when there is a user.  (loads is a
\* set: a second call for the same user object while the first is in flight
\* adds nothing to it.)
RefreshProfile ==
  /\ auth.user # NoUser
  /\ auth' = LoadProfileCalled(auth, auth.user, "refresh")
  /\ UNCHANGED <<ServiceWorkerVars, page>>

NextAuth ==
  \/ \E message \in {"Authentication error", "Failed to authenticate"} :
       GetSessionError(message)
  \/ GetSessionNone
  \/ GetSessionUser
  \/ \E l \in auth.loads, userProfile \in Profiles \cup {NoProfile} :
       LoadProfileResolved(l, userProfile)
  \/ \E l \in auth.loads : LoadProfileRejected(l)
  \/ AuthSignedIn
  \/ AuthSignedOut
  \/ AuthTokenRefreshed
  \/ AuthOtherEvent
  \/ SignOutCalled
  \/ SignOutResolved
  \/ SignOutFailed
  \/ RefreshProfile

\* The service worker plays no part: its storage starts empty and stays so.
InitAuth == Init /\ cacheNames = {}

SpecAuth == InitAuth /\ [][NextAuth]_vars

----------------------------------------------------------------------------
\* MembersPage (src/src/pages/MembersPage.tsx): the two effects that read
\* the auth context.

\* The dependency array of the load effect: [user, authLoading, dataLoaded].
LoadDeps == <<auth.user, auth.loading, page.dataLoaded>>

\* The load effect runs: unless `!user || authLoading || dataLoaded`, it
\* calls loadData(), which awaits api.getPageContent first.
LoadEffectRun(pg) ==
  IF auth.user = NoUser \/ auth.loading \/ pg.dataLoaded
    THEN [pg EXCEPT !.deps = LoadDeps]
    ELSE [pg EXCEPT !.deps = LoadDeps,
                    !.dataLoading = TRUE,
                    !.started = pg.started + 1,
                    !.content = pg.content + 1]

\* The page is rendered for the first time: every effect runs.
PageMount ==
  /\ page.phase = "unmounted"
  /\ page' = LoadEffectRun([page EXCEPT !.phase = "mounted"])
  /\ UNCHANGED <<ServiceWorkerVars, auth>>

\* A render after which the load effect's dependencies differ from those it
\* last ran with: the effect runs again.
PageLoadEffect ==
  /\ page.phase = "mounted"
  /\ page.deps # LoadDeps
  /\ page' = LoadEffectRun(page)
  /\ UNCHANGED <<ServiceWorkerVars, auth>>

\* api.getPageContent settles (a rejection is caught and logged); loadData
\* goes on to the Promise.all of documents page 1 and meeting minutes.
PageContentSettled ==
  /\ page.content > 0
  /\ page' = [page EXCEPT !.content = page.content - 1, !.data = page.data + 1]
  /\ UNCHANGED <<ServiceWorkerVars, auth>>

\* The Promise.all settles; resolved or rejected, the finally block runs
\* setDataLoading(false) and setDataLoaded(true).
PageDataSettled ==
  /\ page.data > 0
  /\ page' = [page EXCEPT !.data = page.data - 1,
                          !.dataLoading = FALSE,
                          !.dataLoaded = TRUE]
  /\ UNCHANGED <<ServiceWorkerVars, auth>>

\* The navigation effect: to /login without a user, to /members/pending
\* with a pending or inactive profile, to /password-reset when the profile
\* asks for one.  The page is left.
PageRedirect ==
  /\ page.phase = "mounted"
  /\ ~auth.loading
  /\ \/ auth.user = NoUser
     \/ auth.user # NoUser /\ auth.profile # NoProfile
          /\ auth.profile.status \in {"pending", "inactive"}
     \/ auth.user # NoUser /\ needsPasswordReset
  /\ page' = [page EXCEPT !.phase = "left"]
  /\ UNCHANGED <<ServiceWorkerVars, auth>>

NextMembers ==
  \/ NextAuth
  \/ PageMount
  \/ PageLoadEffect
  \/ PageContentSettled
  \/ PageDataSettled
  \/ PageRedirect

InitMembers == Init /\ cacheNames = {}

SpecMembers == InitMembers /\ [][NextMembers]_vars

----------------------------------------------------------------------------
\* Properties.

Has(ops, op) == \E i \in DOMAIN ops : ops[i] = op

\* Some occurrence of op precedes the first "fetch" of ops.
BeforeFetch(ops, op) ==
  \E i \in DOMAIN ops :
    /\ ops[i] = op
    /\ \A j \in DOMAIN ops : ops[j] = "fetch" => i < j

PutsBy(h) == {p \in puts : p.by = h}

FetchFailed(h) == handlers[h].error # "none"

\* C1: a navigation request whose fetch fails while the static partition has
\* no entry for '/' completes with the 503 "Offline" response, never with a
\* rejection or an undefined result.
C1_OfflineWhenNoShell ==
  \A h \in Handlers :
    ( /\ handlers[h].route = "navigation"
      /\ handlers[h].pc = "done"
      /\ FetchFailed(h)
      /\ handlers[h].catchCachedResponse = Undefined )
    => /\ handlers[h].outcome = "response"
       /\ handlers[h].result = OfflineResponse

\* C2: only GET requests are written to a partition, and a request that is
\* not a GET issues no cache.match and no cache.put before its network fetch
\* and has no entry written on its behalf.
C2_OnlyGetTouchesCache ==
  /\ \A n \in DOMAIN caches : \A k \in Keys :
       k.method # "GET" => caches[n][k] = Undefined
  /\ \A h \in Handlers :
       handlers[h].method # "GET" =>
         /\ ~BeforeFetch(handlers[h].ops, "match")
         /\ ~BeforeFetch(handlers[h].ops, "put")
         /\ PutsBy(h) = {}

\* C3: the api partition never holds an entry under the key of a non-GET
\* request the API strategy handled, whether its fetch succeeded or failed.
C3_NonGetNeverInApiPartition ==
  \A h \in Handlers :
    (handlers[h].route = "api" /\ handlers[h].method # "GET")
    => caches[API_CACHE_NAME][KeyOf(h)] = Undefined

C3_Witness ==
  \E h \in Handlers :
    /\ handlers[h].route = "api"
    /\ handlers[h].method # "GET"
    /\ handlers[h].pc = "done"
    /\ Ok(handlers[h].networkResponse)

\* C4: a non-GET API request performs no cache lookup at any point, returns
\* the network response when the fetch succeeds and rejects with the network
\* failure when it fails.
C4_NonGetApiSkipsCache ==
  \A h \in Handlers :
    (handlers[h].route = "api" /\ handlers[h].method # "GET")
    => /\ ~Has(handlers[h].ops, "match")
       /\ (handlers[h].pc = "done" /\ ~FetchFailed(h))
            => handlers[h].result = handlers[h].networkResponse
       /\ (handlers[h].pc = "done" /\ FetchFailed(h))
            => handlers[h].outcome = "rejected"

\* C5: when the lookup of a GET API request finds an entry, the step that
\* takes the lookup's result returns exactly that entry, has issued one
\* background fetch and no foreground fetch, and leaves that background
\* fetch pending: the return does not wait for it.
C5_ApiHitReturnsStoredAndRefreshes ==
  [][\A h \in Handlers :
       ( /\ handlers[h].pc = "api_match"
         /\ handlers'[h] # handlers[h]
         /\ caches[API_CACHE_NAME][KeyOf(h)] # Undefined )
       => /\ handlers'[h].pc = "done"
          /\ handlers'[h].outcome = "response"
          /\ handlers'[h].result = caches[API_CACHE_NAME][KeyOf(h)]
          /\ ~Has(handlers'[h].ops, "fetch")
          /\ refresh[h].pc = "none"
          /\ refresh'[h].pc = "fetching"
          /\ refresh'[h].fetches = 1]_vars

C5_Witness ==
  \E h \in Handlers :
    /\ handlers[h].route = "api"
    /\ handlers[h].pc = "done"
    /\ handlers[h].result = EarlierApiResponse
    /\ refresh[h].pc = "fetching"

\* C6: when a GET API request that missed the cache returns an ok network
\* response, the api partition already holds that response under the
\* request's key at the moment of the return.
C6_ApiEntryWrittenBeforeReturn ==
  [][\A h \in Handlers :
       ( /\ handlers[h].pc = "api_fetch"
         /\ handlers[h].method = "GET"
         /\ handlers'[h].pc = "done"
         /\ Ok(handlers'[h].networkResponse) )
       => /\ handlers'[h].result = handlers'[h].networkResponse
          /\ caches'[API_CACHE_NAME][KeyOf(h)] = handlers'[h].networkResponse]_vars

\* C7: a GET API request that missed the cache and whose fetch fails looks
\* the key up once more; it returns the entry if one is there by then and
\* otherwise rejects with the original network failure, never with a
\* synthesized response.
C7_ApiCatchFallsBack ==
  [][\A h \in Handlers :
       /\ ( /\ handlers[h].pc = "api_fetch"
            /\ handlers[h].method = "GET"
            /\ handlers'[h].error # "none" )
          => /\ handlers'[h].pc = "api_catch_match"
             /\ handlers'[h].outcome = "pending"
             /\ handlers'[h].ops = Append(handlers[h].ops, "match")
       /\ ( /\ handlers[h].pc = "api_catch_match"
            /\ handlers[h].method = "GET"
            /\ handlers'[h] # handlers[h] )
          => /\ handlers'[h].pc = "done"
             /\ handlers'[h].ops = handlers[h].ops
             /\ IF caches[API_CACHE_NAME][KeyOf(h)] # Undefined
                  THEN /\ handlers'[h].outcome = "response"
                       /\ handlers'[h].result = caches[API_CACHE_NAME][KeyOf(h)]
                  ELSE /\ handlers'[h].outcome = "rejected"
                       /\ handlers'[h].result = Undefined
                       /\ handlers'[h].error = NetworkError(h, "fg")]_vars

C7_Witness ==
  \E h \in Handlers :
    /\ handlers[h].route = "api"
    /\ handlers[h].method = "GET"
    /\ handlers[h].pc = "done"
    /\ FetchFailed(h)
    /\ handlers[h].outcome = "response"
    /\ handlers[h].result = handlers[h].catchCachedResponse
    /\ handlers[h].result # Undefined

\* C8: a static-asset request whose key is in the static partition returns
\* the cached response, issues no network fetch in the foreground or in the
\* background, and issues no write to the partition.
C8_StaticHitNoNetwork ==
  \A h \in Handlers :
    (handlers[h].route = "static" /\ handlers[h].cachedResponse # Undefined)
    => /\ handlers[h].pc = "done"
       /\ handlers[h].outcome = "response"
       /\ handlers[h].result = handlers[h].cachedResponse
       /\ handlers[h].ops = <<"open", "match">>
       /\ refresh[h] = IdleRefresh
       /\ PutsBy(h) = {}

C8_Witness ==
  \E h \in Handlers :
    /\ handlers[h].route = "static"
    /\ handlers[h].pc = "done"
    /\ handlers[h].result = EarlierAssetResponse

\* C9: a static-asset request that missed the cache and whose fetch fails
\* rejects with that network failure: no offline response, no shell lookup,
\* and no write to the static partition.
C9_StaticFailurePropagates ==
  \A h \in Handlers :
    (handlers[h].route = "static" /\ FetchFailed(h))
    => /\ handlers[h].pc = "done"
       /\ handlers[h].outcome = "rejected"
       /\ handlers[h].error = NetworkError(h, "fg")
       /\ handlers[h].result = Undefined
       /\ handlers[h].ops = <<"open", "match", "fetch">>
       /\ PutsBy(h) = {}

C9_Witness ==
  \E h \in Handlers :
    /\ handlers[h].route = "static"
    /\ handlers[h].pc = "done"
    /\ handlers[h].outcome = "rejected"

\* C10: a static-asset request that missed the cache and got an ok network
\* response returns it, and its write of that response under the request's
\* key is in flight or stored; with a response that is not ok it returns the
\* response and writes nothing.
C10_StaticMissStoresOkResponse ==
  \A h \in Handlers :
    ( /\ handlers[h].route = "static"
      /\ handlers[h].pc = "done"
      /\ handlers[h].networkResponse # Undefined )
    => /\ handlers[h].result = handlers[h].networkResponse
       /\ IF Ok(handlers[h].networkResponse)
            THEN \E p \in PutsBy(h) :
                   /\ p.cache = STATIC_CACHE_NAME
                   /\ p.key = KeyOf(h)
                   /\ p.response = handlers[h].networkResponse
                   /\ p.state \in {"pending", "stored"}
            ELSE PutsBy(h) = {}

\* C11: a navigation request whose fetch fails while the static partition
\* holds an entry for '/' returns that entry: not the 503 response, not a
\* rejection.
C11_NavigationServesShell ==
  [][\A h \in Handlers :
       ( /\ handlers[h].pc = "nav_match"
         /\ handlers'[h] # handlers[h]
         /\ caches[STATIC_CACHE_NAME][RootKey] # Undefined )
       => /\ handlers'[h].pc = "done"
          /\ handlers'[h].outcome = "response"
          /\ handlers'[h].result = caches[STATIC_CACHE_NAME][RootKey]
          /\ handlers'[h].result # OfflineResponse]_vars

C11_Witness ==
  \E h \in Handlers :
    /\ handlers[h].route = "navigation"
    /\ handlers[h].url = PageUrl
    /\ FetchFailed(h)
    /\ handlers[h].pc = "done"
    /\ handlers[h].outcome = "response"
    /\ handlers[h].result = ShellResponse

\* C12: the navigation strategy issues its network fetch before any cache
\* access; when the fetch succeeds it returns the network response having
\* issued nothing else, and no step of a navigation handler writes or issues
\* a write to any partition.
C12_NavigationNetworkFirstNoWrite ==
  [][\A h \in Handlers :
       (handlers'[h] # handlers[h] /\ handlers'[h].route = "navigation")
       => /\ caches' = caches
          /\ puts' = puts
          /\ handlers'[h].ops[1] = "fetch"
          /\ ~Has(handlers'[h].ops, "put")
          /\ (handlers[h].pc = "nav_fetch" /\ handlers'[h].pc = "done")
               => /\ handlers'[h].outcome = "response"
                  /\ handlers'[h].result = NetworkResponse(h, "fg", handlers'[h].result.status)
                  /\ handlers'[h].ops = <<"fetch">>]_vars

C12_Witness ==
  \E h \in Handlers :
    /\ handlers[h].route = "navigation"
    /\ handlers[h].pc = "done"
    /\ Ok(handlers[h].networkResponse)
    /\ handlers[h].result = handlers[h].networkResponse
    /\ PutsBy(h) = {}

\* The network calls of a handler, in its list of operations.
IsNetworkCall(op) == op \in {"fetch", "refresh"}

\* A cache read precedes the first network call of ops.
ReadBeforeNetwork(ops) ==
  \E i \in DOMAIN ops :
    /\ ops[i] = "match"
    /\ \A j \in DOMAIN ops : IsNetworkCall(ops[j]) => i < j

IssuedNetworkCall(h) == \E i \in DOMAIN handlers[h].ops : IsNetworkCall(handlers[h].ops[i])

\* C18 as stated: in every strategy and for every method a cache read
\* precedes the first network call of the request.
C18_ReadAlwaysBeforeNetwork ==
  \A h \in Handlers :
    IssuedNetworkCall(h) => ReadBeforeNetwork(handlers[h].ops)

\* C18 amended: a cache read precedes the first network call in the
\* static-asset strategy and in the API strategy for GET requests; the
\* navigation strategy and the API strategy for other methods issue the
\* fetch with no cache read before it.
C18_ReadBeforeNetworkWhereCacheFirst ==
  \A h \in Handlers :
    IssuedNetworkCall(h) =>
      ( ReadBeforeNetwork(handlers[h].ops)
        <=> \/ handlers[h].route = "static"
            \/ handlers[h].route = "api" /\ handlers[h].method = "GET" )

C18_Witness ==
  /\ \E h \in Handlers :
       /\ handlers[h].route = "api"
       /\ handlers[h].method = "GET"
       /\ handlers[h].ops = <<"open", "match", "fetch">>
  /\ \E h \in Handlers :
       /\ handlers[h].route = "api"
       /\ handlers[h].method # "GET"
       /\ IssuedNetworkCall(h)

\* C19: once the refresh of an API hit exists, the handler that started it
\* has already returned the entry it looked up, and no later step (the
\* refresh's fetch answering or failing, its write being stored) changes
\* what that handler returned.
C19_HitResultFixedBeforeRefreshWrites ==
  [][\A h \in Handlers :
       refresh'[h].pc # "none"
       => /\ handlers'[h].pc = "done"
          /\ handlers'[h].outcome = "response"
          /\ handlers'[h].result = handlers'[h].cachedResponse
          /\ handlers'[h].result # Undefined
          /\ refresh[h].pc # "none" => handlers'[h] = handlers[h]
          /\ \A p \in puts' : (p.by = h /\ p.kind = "bg") => refresh'[h].pc = "done"]_vars

C19_Witness ==
  \E h \in Handlers :
    /\ handlers[h].pc = "done"
    /\ handlers[h].result = EarlierApiResponse
    /\ \E p \in PutsBy(h) : p.kind = "bg" /\ p.state = "stored"
    /\ caches[API_CACHE_NAME][KeyOf(h)] = NetworkResponse(h, "bg", 200)

\* C20: when the fetch of a background refresh fails, that step changes no
\* handler, no partition and no write in flight, and ends the refresh after
\* its single fetch; the request that started it keeps the cached response
\* it returned.
C20_RefreshFailureSwallowed ==
  [][\A h \in Handlers :
       /\ ( refresh[h].pc = "fetching" /\ refresh'[h].error # "none" )
          => /\ handlers' = handlers
             /\ caches' = caches
             /\ puts' = puts
       /\ refresh'[h].error # "none"
          => /\ refresh'[h].pc = "done"
             /\ refresh'[h].fetches = 1
             /\ handlers'[h].outcome = "response"
             /\ handlers'[h].result = handlers'[h].cachedResponse
             /\ \A p \in puts' : ~(p.by = h /\ p.kind = "bg")
       /\ refresh'[h].fetches <= 1]_vars

C20_Witness ==
  \E h \in Handlers :
    /\ refresh[h].pc = "done"
    /\ refresh[h].error = NetworkError(h, "bg")
    /\ handlers[h].outcome = "response"
    /\ handlers[h].result = EarlierApiResponse
    /\ caches[API_CACHE_NAME][KeyOf(h)] = EarlierApiResponse
    /\ \E g \in Handlers : g # h /\ handlers[g].pc = "done" /\ handlers[g].outcome = "response"

Classified(h) == handlers[h].route # "none"

\* The extension test first, then the API prefixes.
RouteStaticFirst(pathname) ==
  IF isStaticAsset(pathname) THEN "static"
  ELSE IF isApiRequest(pathname) THEN "api"
  ELSE "navigation"

\* C13: a request whose path contains a configured API prefix or the segment
\* /functions/v1/ is handled by the API strategy, also when the path ends in
\* a static-asset extension.
C13_ApiPrefixRoutedToApi ==
  \A h \in Handlers :
    ( /\ Classified(h)
      /\ \E i \in DOMAIN handlers[h].url :
           handlers[h].url[i] \in
             {"/api/documents", "/api/members", "/api/minutes", "/api/events",
              "/api/news", "/functions/v1/"} )
    => /\ handlers[h].route = "api"
       /\ handlers[h].pc \in {"api_match", "api_fetch"}
       /\ handlers[h].ops[1] = "open"

C13_Witness ==
  \E h \in Handlers :
    /\ handlers[h].route = "api"
    /\ handlers[h].url = <<"/api/members", ".js">>

\* C14 as stated: every path gets exactly one category, isApiRequest and
\* isStaticAsset never both hold, and testing them in the opposite order
\* gives the same category.
C14_PredicatesExclusive ==
  \A h \in Handlers :
    Classified(h) =>
      /\ handlers[h].route \in {"api", "static", "navigation"}
      /\ ~(isApiRequest(handlers[h].url) /\ isStaticAsset(handlers[h].url))
      /\ RouteStaticFirst(handlers[h].url) = handlers[h].route

\* C14 amended: every path gets exactly one category, decided by testing
\* isApiRequest first and isStaticAsset second; the two predicates both hold
\* for a path with an API prefix that ends in a static extension, and for
\* exactly those paths the opposite order would give another category.
C14_ClassificationTotalApiFirst ==
  \A h \in Handlers :
    Classified(h) =>
      /\ handlers[h].route \in {"api", "static", "navigation"}
      /\ handlers[h].route = Route(handlers[h].url)
      /\ handlers[h].route = "api" <=> isApiRequest(handlers[h].url)
      /\ handlers[h].route = "static" <=>
           (~isApiRequest(handlers[h].url) /\ isStaticAsset(handlers[h].url))
      /\ handlers[h].route = "navigation" <=>
           (~isApiRequest(handlers[h].url) /\ ~isStaticAsset(handlers[h].url))
      /\ RouteStaticFirst(handlers[h].url) # handlers[h].route <=>
           (isApiRequest(handlers[h].url) /\ isStaticAsset(handlers[h].url))

C14_Witness ==
  \E h \in Handlers :
    /\ handlers[h].route = "api"
    /\ handlers[h].url = <<"/functions/v1/", ".png">>
    /\ RouteStaticFirst(handlers[h].url) = "static"

\* C15: when activation has completed, the partitions that exist are the
\* ones that existed before it and bear one of the three current names, and
\* each of them holds exactly the entries it held before.
C15_ActivateDeletesExactlyStale ==
  worker.phase = "activated" =>
    /\ cacheNames = worker.keys \cap {"radlett-lodge-v1", "radlett-lodge-api-v1",
                                      "radlett-lodge-static-v1"}
    /\ \A n \in cacheNames : caches[n] = worker.before[n]

C15_Witness ==
  /\ worker.phase = "activated"
  /\ OldCacheNames \subseteq worker.keys
  /\ cacheNames = CurrentCacheNames
  /\ worker.before["radlett-lodge-static-v0"] # EmptyPartition
  /\ caches[API_CACHE_NAME][Key("GET", ApiUrl)] = EarlierApiResponse

\* C16 as stated: an install that starts with every manifest URL already in
\* the static partition issues no network fetch and leaves the static
\* partition unchanged.
C16_SecondInstallNoFetches ==
  [][/\ (worker'.installs = worker.installs + 1 /\ worker.installs >= 1 /\ ManifestCached)
          => worker'.fetches = worker.fetches
     /\ (worker.phase = "installing" /\ worker.installs >= 2 /\ worker.populated)
          => caches'[STATIC_CACHE_NAME] = caches[STATIC_CACHE_NAME]]_vars

\* C16 amended: every install, also one that finds the manifest already
\* cached, issues one fetch per manifest URL; when all of them answer ok the
\* manifest keys hold the newly fetched responses and every other entry is
\* as before, and when one fails the static partition is unchanged.
C16_EveryInstallRefetches ==
  [][/\ worker'.installs = worker.installs + 1
          => /\ worker'.fetches = worker.fetches + 4
             /\ worker'.pending = 1..4
             /\ caches' = caches
     /\ (worker.phase = "installing" /\ worker'.phase = "installed")
          => /\ worker.fetched = 1..4
             /\ \A i \in 1..4 :
                  caches'[STATIC_CACHE_NAME][ManifestKey(i)] =
                    InstallResponse(worker.installs, i)
             /\ \A k \in Keys :
                  (\A i \in 1..4 : k # ManifestKey(i))
                  => caches'[STATIC_CACHE_NAME][k] = caches[STATIC_CACHE_NAME][k]
     /\ (worker.phase = "installing" /\ worker'.phase # "installed")
          => caches' = caches]_vars

C16_Witness ==
  /\ worker.installs = 2
  /\ worker.populated
  /\ worker.phase = "installed"
  /\ worker.fetches = 8
  /\ caches[STATIC_CACHE_NAME][RootKey] = InstallResponse(2, 1)
  /\ worker.staticBefore[RootKey] = InstallResponse(1, 1)

\* C17: install is all-or-fail.  While its fetches are in flight and when
\* one of them has failed, the static partition is as the install found it;
\* when all four have succeeded it holds an entry for every manifest URL;
\* either way the api partition exists and is as the install found it.
C17_InstallAllOrFail ==
  /\ worker.phase \in {"installing", "redundant"}
       => caches[STATIC_CACHE_NAME] = worker.staticBefore
  /\ worker.phase = "installed"
       => \A i \in 1..4 : caches[STATIC_CACHE_NAME][ManifestKey(i)] # Undefined
  /\ worker.phase \in {"installing", "redundant", "installed"}
       => /\ API_CACHE_NAME \in cacheNames
          /\ STATIC_CACHE_NAME \in cacheNames
          /\ caches[API_CACHE_NAME] = worker.apiBefore

C17_Witness ==
  /\ worker.phase = "redundant"
  /\ Cardinality(worker.fetched) = 3
  /\ ~ManifestCached
  /\ API_CACHE_NAME \in cacheNames
  /\ caches[API_CACHE_NAME] = EmptyPartition

----------------------------------------------------------------------------
\* Concurrency, storage failures and frame conditions of the strategies.

\* How often op occurs in ops.
Times(ops, op) == Cardinality({i \in DOMAIN ops : ops[i] = op})

\* The partition a strategy works on.
PartitionOf(route) ==
  IF route = "api" THEN API_CACHE_NAME ELSE STATIC_CACHE_NAME

\* The put p is carried out by the store in this step.
StoredNow(p) ==
  /\ p \in puts
  /\ p.state = "pending"
  /\ [p EXCEPT !.state = "stored"] \in puts'

\* The awaited operations a handler or a refresh still has in front of it.
Rank(pc) ==
  CASE pc = "idle" -> 4
    [] pc \in {"api_match", "static_match"} -> 3
    [] pc \in {"api_fetch", "static_fetch", "nav_fetch"} -> 2
    [] pc \in {"api_catch_match", "nav_match"} -> 1
    [] OTHER -> 0

RefreshRank(pc) ==
  CASE pc = "none" -> 2
    [] pc = "fetching" -> 1
    [] OTHER -> 0

\* C21: nothing de-duplicates or locks.  A handler whose lookup misses
\* fetches from the network whatever other handlers are doing, an ok answer
\* to a GET issues that handler's own write, and a write that is carried out
\* replaces whatever entry the key had; a partition changes in no other way,
\* so after two writes of one key the entry is that of the write applied
\* last.
C21_LastWriteWins ==
  [][/\ \A p \in puts :
          StoredNow(p) => caches'[p.cache][p.key] = p.response
     /\ caches' # caches => \E p \in puts : StoredNow(p)
     /\ \A h \in Handlers :
          /\ ( /\ handlers[h].pc \in {"api_match", "static_match"}
               /\ caches[PartitionOf(handlers[h].route)][KeyOf(h)] = Undefined
               /\ handlers'[h] # handlers[h] )
             => /\ handlers'[h].ops = Append(handlers[h].ops, "fetch")
                /\ handlers'[h].outcome = "pending"
          /\ ( /\ handlers[h].pc \in {"api_fetch", "static_fetch"}
               /\ handlers[h].method = "GET"
               /\ Ok(handlers'[h].networkResponse) )
             => IssuedPut(h, "fg", PartitionOf(handlers[h].route),
                          handlers'[h].networkResponse) \in puts']_vars

C21_Witness ==
  /\ KeyOf(1) = KeyOf(2)
  /\ handlers[1].method = "GET"
  /\ \A h \in {1, 2} :
       /\ handlers[h].cachedResponse = Undefined
       /\ Has(handlers[h].ops, "fetch")
       /\ \E p \in PutsBy(h) : p.kind = "fg" /\ p.state = "stored"
  /\ caches[PartitionOf(handlers[1].route)][KeyOf(1)] = NetworkResponse(1, "fg", 200)

\* C22: a request one of whose cache-storage operations failed has failed
\* itself; in particular a put that the store rejected after a successful
\* network fetch leaves its request rejected.
C22_StorageFailureFailsRequest ==
  \A p \in puts : p.state = "rejected" => handlers[p.by].outcome = "rejected"

\* C23: every lookup of the API strategy is answered from the api
\* partition, every lookup of the static strategy and of the navigation
\* fallback from the static partition; every write goes to the partition of
\* the strategy that issued it and navigation issues none; handlers create
\* no partition other than these two, and the general partition is never
\* changed.
C23_OnePartitionPerCategory ==
  [][/\ \A h \in Handlers :
          /\ (handlers[h].pc = "api_match" /\ handlers'[h] # handlers[h])
             => handlers'[h].cachedResponse = caches[API_CACHE_NAME][KeyOf(h)]
          /\ (handlers[h].pc = "api_catch_match" /\ handlers'[h] # handlers[h])
             => handlers'[h].catchCachedResponse = caches[API_CACHE_NAME][KeyOf(h)]
          /\ (handlers[h].pc = "static_match" /\ handlers'[h] # handlers[h])
             => handlers'[h].cachedResponse = caches[STATIC_CACHE_NAME][KeyOf(h)]
          /\ (handlers[h].pc = "nav_match" /\ handlers'[h] # handlers[h])
             => handlers'[h].catchCachedResponse = caches[STATIC_CACHE_NAME][RootKey]
     /\ \A p \in puts' :
          /\ handlers'[p.by].route \in {"api", "static"}
          /\ p.cache = PartitionOf(handlers'[p.by].route)
     /\ cacheNames' \ cacheNames \subseteq {API_CACHE_NAME, STATIC_CACHE_NAME}
     /\ \A n \in DOMAIN caches :
          caches'[n] # caches[n]
          => /\ n \in {API_CACHE_NAME, STATIC_CACHE_NAME}
             /\ \E p \in puts : StoredNow(p) /\ p.cache = n
     /\ caches'[CACHE_NAME] = caches[CACHE_NAME]]_vars

C23_Witness ==
  \E h, g \in Handlers :
    /\ handlers[h].route = "static"
    /\ handlers[h].pc = "done"
    /\ handlers[h].result = EarlierAssetResponse
    /\ caches[API_CACHE_NAME][KeyOf(h)] = Undefined
    /\ caches[CACHE_NAME][KeyOf(h)] = Undefined
    /\ handlers[g].route = "api"
    /\ \E p \in PutsBy(g) : p.state = "stored" /\ p.cache = API_CACHE_NAME
    /\ caches[STATIC_CACHE_NAME][KeyOf(g)] = Undefined

\* C24: no strategy retries.  A handler issues at most one foreground fetch
\* and starts at most one refresh, a refresh issues at most one fetch, and
\* every answer a handler or a refresh receives leaves it with fewer awaited
\* operations in front of it, so it is finished after at most three answers.
C24_NoRetries ==
  [][\A h \in Handlers :
       /\ Times(handlers'[h].ops, "fetch") <= 1
       /\ Times(handlers'[h].ops, "refresh") <= 1
       /\ refresh'[h].fetches <= 1
       /\ refresh'[h].fetches = Times(handlers'[h].ops, "refresh")
       /\ handlers'[h] # handlers[h]
          => Rank(handlers'[h].pc) < Rank(handlers[h].pc)
       /\ refresh'[h] # refresh[h]
          => RefreshRank(refresh'[h].pc) < RefreshRank(refresh[h].pc)
       /\ Rank(handlers'[h].pc) = 0 <=> handlers'[h].outcome # "pending"]_vars

C24_Witness ==
  \E h, g \in Handlers :
    /\ handlers[h].route = "api"
    /\ handlers[h].outcome = "rejected"
    /\ Times(handlers[h].ops, "fetch") = 1
    /\ handlers[g].outcome = "response"
    /\ refresh[g].pc = "done"
    /\ refresh[g].error # "none"
    /\ refresh[g].fetches = 1

\* C25 as stated: a GET API or static-asset handler turns a network failure
\* into a rejection only when its partition has no entry for the key at
\* that moment.
C25_FailureOnlyWhenNoEntry ==
  [][\A h \in Handlers :
       ( /\ handlers[h].method = "GET"
         /\ handlers[h].route \in {"api", "static"}
         /\ handlers[h].outcome = "pending"
         /\ handlers'[h].outcome = "rejected" )
       => caches[PartitionOf(handlers[h].route)][KeyOf(h)] = Undefined]_vars

\* C25: a GET API handler rejects only out of its catch block's lookup, and
\* only when that lookup finds no entry; an entry that is there by then,
\* whoever wrote it, is returned.  A static-asset handler looks the key up
\* only before its fetch: after a miss, a failed fetch is the handler's
\* rejection whatever the partition holds by then.
C25_ApiFallsBackStaticDoesNot ==
  [][\A h \in Handlers :
       /\ ( /\ handlers[h].method = "GET"
            /\ handlers[h].route = "api"
            /\ handlers[h].outcome = "pending"
            /\ handlers'[h].outcome # "pending"
            /\ handlers'[h].error # "none" )
          => /\ handlers[h].pc = "api_catch_match"
             /\ handlers'[h].outcome = "rejected"
                  <=> caches[API_CACHE_NAME][KeyOf(h)] = Undefined
             /\ handlers'[h].outcome = "response"
                  => handlers'[h].result = caches[API_CACHE_NAME][KeyOf(h)]
       /\ ( /\ handlers[h].route = "static"
            /\ handlers[h].outcome = "pending"
            /\ handlers'[h].error # "none" )
          => /\ handlers[h].pc = "static_fetch"
             /\ handlers[h].cachedResponse = Undefined
             /\ handlers'[h].outcome = "rejected"
             /\ handlers'[h].result = Undefined]_vars

C25_Witness ==
  \E h \in Handlers :
    /\ handlers[h].route = "static"
    /\ handlers[h].method = "GET"
    /\ handlers[h].outcome = "rejected"
    /\ FetchFailed(h)
    /\ caches[STATIC_CACHE_NAME][KeyOf(h)] # Undefined

\* C26: the answer to a refresh's fetch changes no partition by itself; an
\* ok answer issues the write of that response under the triggering
\* request's key in the api partition and a non-ok answer issues nothing;
\* the write, once carried out, replaces the entry, and a GET that then
\* looks the key up returns the entry it finds.
C26_RefreshOverwritesOnOk ==
  [][\A h \in Handlers :
       /\ (refresh[h].pc = "fetching" /\ refresh'[h].pc = "done")
          => /\ caches' = caches
             /\ handlers' = handlers
             /\ \/ puts' = puts
                \/ /\ refresh'[h].error = "none"
                   /\ puts' = puts \cup
                        {IssuedPut(h, "bg", API_CACHE_NAME, NetworkResponse(h, "bg", 200))}
       /\ \A p \in puts' : (p.by = h /\ p.kind = "bg")
            => /\ Ok(p.response)
               /\ p.cache = API_CACHE_NAME
               /\ p.key = KeyOf(h)
               /\ StoredNow([p EXCEPT !.state = "pending"])
                    => caches'[API_CACHE_NAME][KeyOf(h)] = p.response
       /\ ( /\ handlers[h].pc = "api_match"
            /\ handlers'[h] # handlers[h]
            /\ caches[API_CACHE_NAME][KeyOf(h)] # Undefined )
          => handlers'[h].result = caches[API_CACHE_NAME][KeyOf(h)]]_vars

C26_Witness ==
  /\ handlers[1].result = EarlierApiResponse
  /\ refresh[1].pc = "done"
  /\ KeyOf(2) = KeyOf(1)
  /\ handlers[2].pc = "done"
  /\ handlers[2].result = NetworkResponse(1, "bg", 200)

\* C27: every entry of the api partition is an ok response fetched, in the
\* foreground or by a refresh, for a GET request of that very key (or left
\* under that key by an earlier run); every entry of the static partition
\* is the install-time shell or an ok response fetched for that very key.
\* No non-ok response and no synthesized 503 is ever stored.
C27_EntriesAreOkResponsesOfTheirKey ==
  \A k \in Keys :
    /\ LET entry == caches[API_CACHE_NAME][k] IN
         entry # Undefined
         => /\ Ok(entry)
            /\ entry # OfflineResponse
            /\ k.method = "GET"
            /\ \/ entry = EarlierApiResponse /\ k = Key("GET", ApiUrl)
               \/ \E h \in Handlers, kind \in {"fg", "bg"} :
                    /\ entry = NetworkResponse(h, kind, 200)
                    /\ handlers[h].route = "api"
                    /\ KeyOf(h) = k
    /\ LET entry == caches[STATIC_CACHE_NAME][k] IN
         entry # Undefined
         => /\ Ok(entry)
            /\ entry # OfflineResponse
            /\ \/ entry = ShellResponse /\ k = RootKey
               \/ entry = EarlierAssetResponse /\ k = Key("GET", AssetUrl)
               \/ \E h \in Handlers :
                    /\ entry = NetworkResponse(h, "fg", 200)
                    /\ handlers[h].route = "static"
                    /\ KeyOf(h) = k

C27_Witness ==
  \E h, g \in Handlers :
    /\ caches[API_CACHE_NAME][KeyOf(h)] = NetworkResponse(h, "fg", 200)
    /\ caches[STATIC_CACHE_NAME][KeyOf(g)] = NetworkResponse(g, "fg", 200)
    /\ caches[STATIC_CACHE_NAME][RootKey] = ShellResponse

\* C28: no step of request handling deletes an entry or a partition; the
\* static partition changes only by a write the static strategy issued, the
\* api partition only by a write the API strategy or its refresh issued.
C28_HandlersNeverRemoveOrCross ==
  [][/\ cacheNames \subseteq cacheNames'
     /\ DOMAIN caches' = DOMAIN caches
     /\ \A n \in DOMAIN caches, k \in Keys :
          caches[n][k] # Undefined => caches'[n][k] # Undefined
     /\ caches'[STATIC_CACHE_NAME] # caches[STATIC_CACHE_NAME]
          => \E p \in puts :
               StoredNow(p) /\ handlers[p.by].route = "static" /\ p.kind = "fg"
     /\ caches'[API_CACHE_NAME] # caches[API_CACHE_NAME]
          => \E p \in puts : StoredNow(p) /\ handlers[p.by].route = "api"]_vars

C28_Witness ==
  \E h, g \in Handlers :
    /\ handlers[h].route = "api"
    /\ \E p \in PutsBy(h) : p.kind = "bg" /\ p.state = "stored"
    /\ handlers[g].route = "static"
    /\ handlers[g].method = "GET"
    /\ \E p \in PutsBy(g) : p.state = "stored"
    /\ caches[STATIC_CACHE_NAME][RootKey] = ShellResponse
    /\ caches[STATIC_CACHE_NAME][KeyOf(h)] = Undefined
    /\ caches[API_CACHE_NAME][KeyOf(g)] = Undefined

----------------------------------------------------------------------------
\* The session state and the members page.

\* C29: whenever no loadProfile call is in flight, a provider without a user
\* has no profile either, so that isAdmin and needsPasswordReset are false.
C29_NoUserNoProfile ==
  (auth.loads = {} /\ auth.user = NoUser)
  => /\ auth.profile = NoProfile
     /\ ~isAdmin
     /\ ~needsPasswordReset

\* C30: a mounted members page calls loadData at most once, whatever the
\* auth context does before or after the load finishes.
C30_LoadStartedAtMostOnce ==
  page.started <= 1

====
